---------------------------- MODULE Spec2Model ----------------------------
(***************************************************************************)
(* A model of the git diff viewer of src/src/App.jsx: parseDiff, the       *)
(* single-pass parser of unified-diff text, and the two renderers that     *)
(* number the lines of a hunk, FileViewer's unified view and SplitHunk's   *)
(* side-by-side rows.                                                      *)
(*                                                                         *)
(* Strings are sequences of one-character strings, so that split,          *)
(* startsWith, substring and the hunk-header regular expression are        *)
(* computed character by character.  A JavaScript value that may be null   *)
(* is a sequence of length at most one: <<>> is null, <<v>> is v.          *)
(***************************************************************************)
EXTENDS Integers, Sequences, FiniteSets

VARIABLES
    \* parseDiff
    diffText,           \* the argument: <<>> (null/undefined) or <<text>>
    lines,              \* diffText.split('\n')
    i,                  \* the loop index of parseDiff (1-based here)
    files,              \* the files array, the return value once pc = "done"
    currentFile,        \* <<>> or <<file>>
    currentHunk,        \* <<>> or <<hunk>>
    pc,                 \* "idle" | "start" | "loop" | "done" | "threw"
    \* FileViewer / SplitHunk on one hunk
    viewMode,           \* "unified" | "split"
    hunk,               \* <<>> or <<the hunk prop>>
    idx,                \* index of the next hunk line to render (1-based)
    rows,               \* SplitHunk's rows
    oldLineCounter,     \* SplitHunk's counters
    newLineCounter,
    unified,            \* the DiffLine props FileViewer's map has produced
    oldLine,            \* FileViewer's counters
    newLine,
    rpc                 \* "idle" | "render" | "done"

parseVars == <<diffText, lines, i, files, currentFile, currentHunk, pc>>
renderVars == <<viewMode, hunk, idx, rows, oldLineCounter, newLineCounter,
                unified, oldLine, newLine, rpc>>
vars == <<diffText, lines, i, files, currentFile, currentHunk, pc,
          viewMode, hunk, idx, rows, oldLineCounter, newLineCounter,
          unified, oldLine, newLine, rpc>>

---------------------------------------------------------------------------
(* Bounds of the model. *)

\* Largest number of lines in an enumerated diff text.
MaxLines == 4
\* Largest number of lines in an enumerated hunk given to the renderers.
MaxHunkLines == 5
\* Largest oldStart / newStart of an enumerated hunk.
MaxStart == 1

---------------------------------------------------------------------------
(* Characters and string literals of the source. *)

NL == "\n"

Digits == {"0", "1", "2", "3", "4", "5", "6", "7", "8", "9"}

PfxDiffGit == <<"d", "i", "f", "f", " ", "-", "-", "g", "i", "t">>
PfxOld == <<"-", "-", "-", " ", "a", "/">>
PfxNew == <<"+", "+", "+", " ", "b", "/">>
PfxHunk == <<"@", "@", " ">>
ReOpen == <<"@", "@", " ", "-">>
ReMid == <<" ", "+">>
ReClose == <<" ", "@", "@">>

---------------------------------------------------------------------------
(* String primitives of JavaScript used by parseDiff. *)

\* s.startsWith(p)
StartsWith(s, p) == Len(s) >= Len(p) /\ SubSeq(s, 1, Len(p)) = p

\* s.substring(n)
Substring(s, n) == SubSeq(s, n + 1, Len(s))

\* t.split('\n'): the pieces between the newlines, empty pieces included.
RECURSIVE Split(_)
Split(t) ==
    IF \E p \in 1..Len(t) : t[p] = NL
    THEN LET p == CHOOSE q \in 1..Len(t) :
                      t[q] = NL /\ \A r \in 1..(q - 1) : t[r] # NL
         IN <<SubSeq(t, 1, p - 1)>> \o Split(SubSeq(t, p + 1, Len(t)))
    ELSE <<t>>

\* IsFalsy as `diffText === ''` would compute it: null is let through.
IsFalsyEmptyOnly(t) == t # <<>> /\ t[1] = <<>>

\* !diffText : null, undefined and '' are falsy.
IsFalsy(t) == t = <<>> \/ t[1] = <<>>

SetMax(S) == CHOOSE x \in S : \A y \in S : y <= x
SetMin(S) == CHOOSE x \in S : \A y \in S : x <= y

\* lit occurs in s at position p.
HasAt(s, p, lit) ==
    p + Len(lit) - 1 <= Len(s) /\ SubSeq(s, p, p + Len(lit) - 1) = lit

\* The last position of the longest run of digits of s starting at p
\* (p - 1 when s has no digit at p): what \d+ consumes.
DigitsEnd(s, p) ==
    LET ends == {e \in p..Len(s) : \A q \in p..e : s[q] \in Digits}
    IN IF ends = {} THEN p - 1 ELSE SetMax(ends)

\* The position after the optional group (?:,(\d+))? tried at p.
AfterCount(s, p) ==
    IF HasAt(s, p, <<",">>) /\ DigitsEnd(s, p + 1) >= p + 1
    THEN DigitsEnd(s, p + 1) + 1
    ELSE p

\* /@@ -(\d+)(?:,(\d+))? \+(\d+)(?:,(\d+))? @@/ tried at position p of s:
\* <<>> or <<[g1, g3]>>, the captured groups 1 and 3.
MatchAt(s, p) ==
    IF ~HasAt(s, p, ReOpen) THEN <<>> ELSE
    LET a == p + Len(ReOpen)
        ae == DigitsEnd(s, a)
    IN IF ae < a THEN <<>> ELSE
    LET b == AfterCount(s, ae + 1)
    IN IF ~HasAt(s, b, ReMid) THEN <<>> ELSE
    LET c == b + Len(ReMid)
        ce == DigitsEnd(s, c)
    IN IF ce < c THEN <<>> ELSE
    LET d == AfterCount(s, ce + 1)
    IN IF ~HasAt(s, d, ReClose) THEN <<>> ELSE
    <<[g1 |-> SubSeq(s, a, ae), g3 |-> SubSeq(s, c, ce)]>>

\* line.match(...): the leftmost match, or null.
Match(s) ==
    LET ps == {p \in 1..Len(s) : MatchAt(s, p) # <<>>}
    IN IF ps = {} THEN <<>> ELSE MatchAt(s, SetMin(ps))

DigitVal(c) ==
    CASE c = "0" -> 0 [] c = "1" -> 1 [] c = "2" -> 2 [] c = "3" -> 3
      [] c = "4" -> 4 [] c = "5" -> 5 [] c = "6" -> 6 [] c = "7" -> 7
      [] c = "8" -> 8 [] c = "9" -> 9

\* parseInt of a string of digits.
RECURSIVE ParseInt(_)
ParseInt(ds) ==
    IF ds = <<>> THEN 0
    ELSE 10 * ParseInt(SubSeq(ds, 1, Len(ds) - 1)) + DigitVal(ds[Len(ds)])

---------------------------------------------------------------------------
(* parseDiff. *)

\* The file object a `diff --git` line opens.
NewFile(line) ==
    [header |-> line, oldName |-> <<>>, newName |-> <<>>,
     meta |-> <<>>, hunks |-> <<>>]

\* OpenHunk as a parser that skips a header it cannot match would compute it.
OpenHunkMatchedOnly(line) ==
    LET match == Match(line)
    IN IF match = <<>> THEN <<>>
       ELSE <<[header |-> line, lines |-> <<>>,
               oldStart |-> ParseInt(match[1].g1),
               newStart |-> ParseInt(match[1].g3)]>>

\* The hunk object a line beginning `@@ ` opens.
OpenHunk(line) ==
    LET match == Match(line)
        oldStart == IF match # <<>> THEN ParseInt(match[1].g1) ELSE 0
        newStart == IF match # <<>> THEN ParseInt(match[1].g3) ELSE 0
    IN <<[header |-> line, lines |-> <<>>,
          oldStart |-> oldStart, newStart |-> newStart]>>

\* The type of a content line, by its first character.
LineType(line) ==
    IF StartsWith(line, <<"+">>) THEN "add"
    ELSE IF StartsWith(line, <<"-">>) THEN "delete"
    ELSE IF StartsWith(line, <<"\\">>) THEN "no-newline"
    ELSE "context"

\* The object pushed on currentHunk.lines for a content line.
DiffLineOf(line) == [content |-> line, type |-> LineType(line)]

\* if (currentHunk) currentFile.hunks.push(currentHunk)
WithHunkClosed(file, h) ==
    IF h # <<>> THEN [file EXCEPT !.hunks = Append(@, h[1])] ELSE file

\* WithFileClosed without the push of the open hunk.
WithFileClosedHunkLost(fs, cf, h) ==
    IF cf # <<>> THEN Append(fs, cf[1]) ELSE fs

\* The files array after the open file, if any, is closed and pushed.
WithFileClosed(fs, cf, h) ==
    IF cf # <<>> THEN Append(fs, WithHunkClosed(cf[1], h)) ELSE fs

\* if (currentFile) currentFile.oldName = line.substring(6)
WithOldName(cf, line) ==
    IF cf # <<>> THEN <<[cf[1] EXCEPT !.oldName = Substring(line, 6)]>> ELSE cf

\* if (currentFile) currentFile.newName = line.substring(6)
WithNewName(cf, line) ==
    IF cf # <<>> THEN <<[cf[1] EXCEPT !.newName = Substring(line, 6)]>> ELSE cf

Line == lines[i]

InLoop == pc = "loop" /\ i <= Len(lines)

IsDiffGit(line) == StartsWith(line, PfxDiffGit)
IsOldName(line) == ~IsDiffGit(line) /\ StartsWith(line, PfxOld)
IsNewName(line) ==
    ~IsDiffGit(line) /\ ~IsOldName(line) /\ StartsWith(line, PfxNew)
IsHunkHeader(line) ==
    /\ ~IsDiffGit(line) /\ ~IsOldName(line) /\ ~IsNewName(line)
    /\ StartsWith(line, PfxHunk)
IsOther(line) ==
    /\ ~IsDiffGit(line) /\ ~IsOldName(line) /\ ~IsNewName(line)
    /\ ~IsHunkHeader(line)

\* if (!diffText) return []; ... const lines = diffText.split('\n')
\* (split on null or undefined would throw a TypeError).
ParseStart ==
    /\ pc = "start"
    /\ IF IsFalsy(diffText)
       THEN pc' = "done" /\ lines' = lines
       ELSE IF diffText = <<>>
            THEN pc' = "threw" /\ lines' = lines
            ELSE pc' = "loop" /\ lines' = Split(diffText[1])
    /\ UNCHANGED <<diffText, i, files, currentFile, currentHunk>>
    /\ UNCHANGED renderVars

\* A line starting `diff --git`: push the open file, open a new one.
DiffGitLine ==
    /\ InLoop /\ IsDiffGit(Line)
    /\ files' = WithFileClosed(files, currentFile, currentHunk)
    /\ currentFile' = <<NewFile(Line)>>
    /\ currentHunk' = <<>>
    /\ i' = i + 1
    /\ UNCHANGED <<diffText, lines, pc>>
    /\ UNCHANGED renderVars

\* A line starting `--- a/`.
OldNameLine ==
    /\ InLoop /\ IsOldName(Line)
    /\ currentFile' = WithOldName(currentFile, Line)
    /\ i' = i + 1
    /\ UNCHANGED <<diffText, lines, pc, files, currentHunk>>
    /\ UNCHANGED renderVars

\* A line starting `+++ b/`.
NewNameLine ==
    /\ InLoop /\ IsNewName(Line)
    /\ currentFile' = WithNewName(currentFile, Line)
    /\ i' = i + 1
    /\ UNCHANGED <<diffText, lines, pc, files, currentHunk>>
    /\ UNCHANGED renderVars

\* A line starting `@@ `: with a file open, push the open hunk and open a
\* new one; without, the line is skipped.
HunkHeaderLine ==
    /\ InLoop /\ IsHunkHeader(Line)
    /\ IF currentFile # <<>>
       THEN /\ currentFile' = <<WithHunkClosed(currentFile[1], currentHunk)>>
            /\ currentHunk' = OpenHunk(Line)
       ELSE UNCHANGED <<currentFile, currentHunk>>
    /\ i' = i + 1
    /\ UNCHANGED <<diffText, lines, pc, files>>
    /\ UNCHANGED renderVars

\* Any other line with a file and a hunk open: a content line of the hunk.
ContentLine ==
    /\ InLoop /\ IsOther(Line)
    /\ currentFile # <<>> /\ currentHunk # <<>>
    /\ currentHunk' =
           <<[currentHunk[1] EXCEPT !.lines = Append(@, DiffLineOf(Line))]>>
    /\ i' = i + 1
    /\ UNCHANGED <<diffText, lines, pc, files, currentFile>>
    /\ UNCHANGED renderVars

\* Any other line with a file open and no hunk yet: a metadata line.
MetaLine ==
    /\ InLoop /\ IsOther(Line)
    /\ currentFile # <<>> /\ currentHunk = <<>>
    /\ currentFile' = <<[currentFile[1] EXCEPT !.meta = Append(@, Line)]>>
    /\ i' = i + 1
    /\ UNCHANGED <<diffText, lines, pc, files, currentHunk>>
    /\ UNCHANGED renderVars

\* Any other line with no file open: nothing is done with it.
SkippedLine ==
    /\ InLoop /\ IsOther(Line)
    /\ currentFile = <<>>
    /\ i' = i + 1
    /\ UNCHANGED <<diffText, lines, pc, files, currentFile, currentHunk>>
    /\ UNCHANGED renderVars

\* After the loop: push the last file, return files.
ParseReturn ==
    /\ pc = "loop" /\ i > Len(lines)
    /\ files' = WithFileClosed(files, currentFile, currentHunk)
    /\ currentFile' = IF currentFile # <<>>
                      THEN <<WithHunkClosed(currentFile[1], currentHunk)>>
                      ELSE currentFile
    /\ pc' = "done"
    /\ UNCHANGED <<diffText, lines, i, currentHunk>>
    /\ UNCHANGED renderVars

---------------------------------------------------------------------------
(* The diff texts parseDiff is run on. *)

LnDiffGit == <<"d", "i", "f", "f", " ", "-", "-", "g", "i", "t", " ", "a", "/", "x", " ", "b", "/", "x">>
LnOldX == <<"-", "-", "-", " ", "a", "/", "x">>
LnNewX == <<"+", "+", "+", " ", "b", "/", "x">>
LnOldY == <<"-", "-", "-", " ", "a", "/", "y">>
LnNewY == <<"+", "+", "+", " ", "b", "/", "y">>
LnHunk == <<"@", "@", " ", "-", "1", ",", "2", " ", "+", "1", ",", "2", " ", "@", "@">>
LnHunkBad == <<"@", "@", " ", "b", "a", "d", " ", "@", "@">>
LnDel == <<"-", "A">>
LnAdd == <<"+", "C">>
LnCtx == <<" ", "B">>
LnMarker == <<"\\", " ", "N", "o", " ", "n", "e", "w", "l", "i", "n", "e", " ", "a", "t", " ", "e", "n", "d", " ", "o", "f", " ", "f", "i", "l", "e">>
LnHunkWide == <<"@", "@", " ", "-", "1", "2", " ", "+", "7", ",", "3", " ", "@", "@", " ", "f", "n">>
LnDiffGitY == <<"d", "i", "f", "f", " ", "-", "-", "g", "i", "t", " ", "a", "/", "y", " ", "b", "/", "y">>
LnIndex == <<"i", "n", "d", "e", "x", " ", "1">>

\* The scenario text of the specification's section 8.
ScenarioText == <<"d", "i", "f", "f", " ", "-", "-", "g", "i", "t", " ", "a", "/", "x", ".", "t", "x", "t", " ", "b", "/", "x", ".", "t", "x", "t", NL, "-", "-", "-", " ", "a", "/", "x", ".", "t", "x", "t", NL, "+", "+", "+", " ", "b", "/", "x", ".", "t", "x", "t", NL, "@", "@", " ", "-", "1", ",", "2", " ", "+", "1", ",", "2", " ", "@", "@", NL, "-", "o", "l", "d", NL, "+", "n", "e", "w", NL, " ", "c", "o", "n", "t", "e", "x", "t", NL>>
XTxt == <<"x", ".", "t", "x", "t">>
TxtOld == <<"-", "o", "l", "d">>
TxtNew == <<"+", "n", "e", "w">>
TxtContext == <<" ", "c", "o", "n", "t", "e", "x", "t">>

LineAlphabet ==
    {LnDiffGit, LnOldX, LnNewX, LnOldY, LnNewY, LnHunk, LnHunkBad,
     LnDel, LnAdd, LnCtx}

SeqsUpTo(S, n) == UNION {[1..k -> S] : k \in 0..n}

\* ls joined by newlines.
RECURSIVE JoinLines(_)
JoinLines(ls) ==
    IF ls = <<>> THEN <<>>
    ELSE IF Len(ls) = 1 THEN ls[1]
    ELSE ls[1] \o <<NL>> \o JoinLines(Tail(ls))

\* Every text of at most MaxLines lines of the alphabet, with and without a
\* final newline, and a few longer texts.
FixedTexts ==
    {ScenarioText,
     JoinLines(<<LnIndex, LnDiffGit, LnIndex, LnOldX, LnNewX, LnHunkWide,
                 LnDel, LnMarker, LnAdd, LnMarker>>),
     JoinLines(<<LnDiffGit, LnHunk, LnDel, LnDel, LnAdd, LnDiffGit,
                 LnHunkBad, LnAdd, LnHunk, LnCtx>>) \o <<NL>>,
     JoinLines(<<LnHunk, LnDiffGitY, LnHunkWide, LnAdd, LnHunk, LnDiffGit,
                 LnDiffGitY, LnHunkBad, LnDel>>)}

Texts ==
    LET bodies == {JoinLines(ls) : ls \in SeqsUpTo(LineAlphabet, MaxLines)}
    IN bodies \cup {b \o <<NL>> : b \in bodies} \cup FixedTexts

Inputs == {<<>>} \cup {<<t>> : t \in Texts}

RenderIdle ==
    /\ viewMode = "split"
    /\ hunk = <<>>
    /\ idx = 1
    /\ rows = <<>>
    /\ oldLineCounter = 0
    /\ newLineCounter = 0
    /\ unified = <<>>
    /\ oldLine = 0
    /\ newLine = 0
    /\ rpc = "idle"

Init ==
    /\ diffText \in Inputs
    /\ lines = <<>>
    /\ i = 1
    /\ files = <<>>
    /\ currentFile = <<>>
    /\ currentHunk = <<>>
    /\ pc = "start"
    /\ RenderIdle

Next ==
    \/ ParseStart
    \/ DiffGitLine
    \/ OldNameLine
    \/ NewNameLine
    \/ HunkHeaderLine
    \/ ContentLine
    \/ MetaLine
    \/ SkippedLine
    \/ ParseReturn

Spec == Init /\ [][Next]_vars

---------------------------------------------------------------------------
(* SplitHunk: the rows of the side-by-side view of one hunk. *)

HunkLine == hunk[1].lines[idx]

\* A property read of a missing property is undefined.
SideType(side) == IF "type" \in DOMAIN side THEN side.type ELSE "undefined"

\* ContextRow with the new side left out.
ContextRowOldOnly(line, o, n) ==
    [type |-> "context",
     left |-> <<[num |-> o, content |-> line.content]>>,
     right |-> <<>>]

ContextRow(line, o, n) ==
    [type |-> "context",
     left |-> <<[num |-> o, content |-> line.content]>>,
     right |-> <<[num |-> n, content |-> line.content]>>]

DeleteRow(line, o) ==
    [type |-> "change",
     left |-> <<[num |-> o, content |-> line.content, type |-> "delete"]>>,
     right |-> <<>>]

AddSide(line, n) == [num |-> n, content |-> line.content, type |-> "add"]

AddRow(line, n) ==
    [type |-> "change", left |-> <<>>, right |-> <<AddSide(line, n)>>]

\* rows[j].left && rows[j].left.type === 'delete' && !rows[j].right
HasEmptyRight(row) ==
    row.left # <<>> /\ SideType(row.left[1]) = "delete" /\ row.right = <<>>

\* ScanBack without the break on a context row.
RECURSIVE ScanBackThroughContext(_, _)
ScanBackThroughContext(rs, j) ==
    IF j < 1 THEN 0
    ELSE IF HasEmptyRight(rs[j]) THEN j
    ELSE ScanBackThroughContext(rs, j - 1)

\* ScanBack that looks at the last row only.
ScanBackLastRowOnly(rs, j) ==
    IF j < 1 THEN 0
    ELSE IF rs[j].type = "context" THEN 0
    ELSE IF HasEmptyRight(rs[j]) THEN j
    ELSE 0

\* The backward loop over rows from index j: the index of the row the
\* addition is merged into, 0 when the loop ends or breaks without a merge.
RECURSIVE ScanBack(_, _)
ScanBack(rs, j) ==
    IF j < 1 THEN 0
    ELSE IF rs[j].type = "context" THEN 0
    ELSE IF HasEmptyRight(rs[j]) THEN j
    ELSE ScanBack(rs, j - 1)

\* rows after an add line is handled.
RowsWithAdd(rs, line, n) ==
    LET j == ScanBack(rs, Len(rs))
    IN IF j # 0
       THEN [rs EXCEPT ![j].right = <<AddSide(line, n)>>]
       ELSE Append(rs, AddRow(line, n))

\* SplitHunk is called with the hunk: rows = [], the counters at the starts.
SplitEnter ==
    /\ rpc = "start" /\ viewMode = "split"
    /\ rows' = <<>>
    /\ oldLineCounter' = hunk[1].oldStart
    /\ newLineCounter' = hunk[1].newStart
    /\ idx' = 1
    /\ rpc' = "render"
    /\ UNCHANGED <<viewMode, hunk, unified, oldLine, newLine>>
    /\ UNCHANGED parseVars

InSplitLoop ==
    rpc = "render" /\ viewMode = "split" /\ idx <= Len(hunk[1].lines)

SplitContext ==
    /\ InSplitLoop /\ HunkLine.type = "context"
    /\ rows' = Append(rows, ContextRow(HunkLine, oldLineCounter, newLineCounter))
    /\ oldLineCounter' = oldLineCounter + 1
    /\ newLineCounter' = newLineCounter + 1
    /\ idx' = idx + 1
    /\ UNCHANGED <<viewMode, hunk, unified, oldLine, newLine, rpc>>
    /\ UNCHANGED parseVars

SplitDelete ==
    /\ InSplitLoop /\ HunkLine.type = "delete"
    /\ rows' = Append(rows, DeleteRow(HunkLine, oldLineCounter))
    /\ oldLineCounter' = oldLineCounter + 1
    /\ idx' = idx + 1
    /\ UNCHANGED <<viewMode, hunk, newLineCounter, unified, oldLine, newLine, rpc>>
    /\ UNCHANGED parseVars

SplitAdd ==
    /\ InSplitLoop /\ HunkLine.type = "add"
    /\ rows' = RowsWithAdd(rows, HunkLine, newLineCounter)
    /\ newLineCounter' = newLineCounter + 1
    /\ idx' = idx + 1
    /\ UNCHANGED <<viewMode, hunk, oldLineCounter, unified, oldLine, newLine, rpc>>
    /\ UNCHANGED parseVars

\* "No newline or other metadata": only i++.
SplitOther ==
    /\ InSplitLoop
    /\ HunkLine.type \notin {"context", "delete", "add"}
    /\ idx' = idx + 1
    /\ UNCHANGED <<viewMode, hunk, rows, oldLineCounter, newLineCounter,
                   unified, oldLine, newLine, rpc>>
    /\ UNCHANGED parseVars

\* The while loop ends: rows is what is rendered.
SplitReturn ==
    /\ rpc = "render" /\ viewMode = "split" /\ idx > Len(hunk[1].lines)
    /\ rpc' = "done"
    /\ UNCHANGED <<viewMode, hunk, idx, rows, oldLineCounter, newLineCounter,
                   unified, oldLine, newLine>>
    /\ UNCHANGED parseVars

---------------------------------------------------------------------------
(* FileViewer, viewMode === 'unified': the numbering of one hunk's lines. *)

\* o of the callback: null for an add line, else oldLine (then oldLine++).
OldNumOf(line, o) == IF line.type # "add" THEN <<o>> ELSE <<>>

\* n of the callback: null for a delete line, else newLine (then newLine++).
NewNumOf(line, n) == IF line.type # "delete" THEN <<n>> ELSE <<>>

\* let oldLine = hunk.oldStart; let newLine = hunk.newStart
UnifiedEnter ==
    /\ rpc = "start" /\ viewMode = "unified"
    /\ unified' = <<>>
    /\ oldLine' = hunk[1].oldStart
    /\ newLine' = hunk[1].newStart
    /\ idx' = 1
    /\ rpc' = "render"
    /\ UNCHANGED <<viewMode, hunk, rows, oldLineCounter, newLineCounter>>
    /\ UNCHANGED parseVars

\* One call of the callback of hunk.lines.map.
UnifiedLine ==
    /\ rpc = "render" /\ viewMode = "unified" /\ idx <= Len(hunk[1].lines)
    /\ LET o == OldNumOf(HunkLine, oldLine)
           n == NewNumOf(HunkLine, newLine)
       IN /\ unified' = Append(unified,
                 [type |-> HunkLine.type, content |-> HunkLine.content,
                  oldNum |-> o, newNum |-> n])
          /\ oldLine' = IF o # <<>> THEN oldLine + 1 ELSE oldLine
          /\ newLine' = IF n # <<>> THEN newLine + 1 ELSE newLine
    /\ idx' = idx + 1
    /\ UNCHANGED <<viewMode, hunk, rows, oldLineCounter, newLineCounter, rpc>>
    /\ UNCHANGED parseVars

UnifiedReturn ==
    /\ rpc = "render" /\ viewMode = "unified" /\ idx > Len(hunk[1].lines)
    /\ rpc' = "done"
    /\ UNCHANGED <<viewMode, hunk, idx, rows, oldLineCounter, newLineCounter,
                   unified, oldLine, newLine>>
    /\ UNCHANGED parseVars

---------------------------------------------------------------------------
(* The hunks the renderers are run on: what parseDiff builds from a header *)
(* line and content lines.                                                 *)

DigitChar(d) ==
    CASE d = 0 -> "0" [] d = 1 -> "1" [] d = 2 -> "2" [] d = 3 -> "3"
      [] d = 4 -> "4" [] d = 5 -> "5" [] d = 6 -> "6" [] d = 7 -> "7"
      [] d = 8 -> "8" [] d = 9 -> "9"

RECURSIVE Decimal(_)
Decimal(n) ==
    IF n < 10 THEN <<DigitChar(n)>>
    ELSE Decimal(n \div 10) \o <<DigitChar(n % 10)>>

\* The header line `@@ -o +n @@`.
HeaderFor(o, n) == ReOpen \o Decimal(o) \o ReMid \o Decimal(n) \o ReClose

HunkLineAlphabet == {LnDel, LnAdd, LnCtx, LnMarker}

HunkOf(header, contents) ==
    <<[OpenHunk(header)[1] EXCEPT
          !.lines = [p \in 1..Len(contents) |-> DiffLineOf(contents[p])]]>>

Hunks ==
    {HunkOf(h, cs) :
        h \in {HeaderFor(o, n) : o \in 0..MaxStart, n \in 0..MaxStart}
                 \cup {LnHunkBad},
        cs \in SeqsUpTo(HunkLineAlphabet, MaxHunkLines)}

ParseIdle ==
    /\ diffText = <<>>
    /\ lines = <<>>
    /\ i = 1
    /\ files = <<>>
    /\ currentFile = <<>>
    /\ currentHunk = <<>>
    /\ pc = "idle"

RenderInit ==
    /\ ParseIdle
    /\ viewMode \in {"unified", "split"}
    /\ hunk \in Hunks
    /\ idx = 1
    /\ rows = <<>>
    /\ oldLineCounter = 0
    /\ newLineCounter = 0
    /\ unified = <<>>
    /\ oldLine = 0
    /\ newLine = 0
    /\ rpc = "start"

RenderNext ==
    \/ SplitEnter
    \/ SplitContext
    \/ SplitDelete
    \/ SplitAdd
    \/ SplitOther
    \/ SplitReturn
    \/ UnifiedEnter
    \/ UnifiedLine
    \/ UnifiedReturn

RenderSpec == RenderInit /\ [][RenderNext]_vars

---------------------------------------------------------------------------
(* Properties of SplitHunk and FileViewer, checked under RenderSpec. *)

SplitDone == rpc = "done" /\ viewMode = "split"

\* ls is m delete lines followed by n add lines.
DeletesThenAdds(ls, m, n) ==
    /\ Len(ls) = m + n
    /\ \A p \in 1..m : ls[p].type = "delete"
    /\ \A p \in (m + 1)..(m + n) : ls[p].type = "add"

\* C1: for a hunk of m deletes followed by n adds with m > n, SplitHunk
\* returns exactly m change rows, the first n with both sides populated and
\* the remaining m - n with right = null.
C1_FirstRowsPaired ==
    SplitDone =>
        \A m \in 1..Len(hunk[1].lines), n \in 0..Len(hunk[1].lines) :
            (m > n /\ DeletesThenAdds(hunk[1].lines, m, n)) =>
                /\ Len(rows) = m
                /\ \A r \in 1..Len(rows) :
                       /\ rows[r].type = "change"
                       /\ rows[r].left # <<>>
                       /\ (r <= n => rows[r].right # <<>>)
                       /\ (r > n => rows[r].right = <<>>)

\* The number of lines before position p of ls whose type is in T.
CountBefore(ls, p, T) == Cardinality({q \in 1..(p - 1) : ls[q].type \in T})

OldSide == {"context", "delete"}
NewSide == {"context", "add"}

\* The num fields of the populated sides of rs, in row order.
RECURSIVE LeftNums(_)
LeftNums(rs) ==
    IF rs = <<>> THEN <<>>
    ELSE (IF rs[1].left # <<>> THEN <<rs[1].left[1].num>> ELSE <<>>)
             \o LeftNums(Tail(rs))

RightNumSet(rs) ==
    {rs[r].right[1].num : r \in {q \in 1..Len(rs) : rs[q].right # <<>>}}

\* C5: a no-newline marker line affects the numbering of no other line, in
\* either view: every counter stands at the hunk's start plus the number of
\* old-side (context, delete) or new-side (context, add) lines handled so
\* far, and every line other than a marker is numbered as it would be with
\* the markers removed from the hunk.
C5_MarkerNeverAffectsNumbering ==
    rpc \in {"render", "done"} =>
        LET ls == hunk[1].lines
            os == hunk[1].oldStart
            ns == hunk[1].newStart
        IN /\ viewMode = "unified" =>
                /\ oldLine = os + CountBefore(ls, idx, OldSide)
                /\ newLine = ns + CountBefore(ls, idx, NewSide)
                /\ \A p \in 1..Len(unified) :
                       ls[p].type # "no-newline" =>
                           /\ unified[p].oldNum =
                                  IF ls[p].type \in OldSide
                                  THEN <<os + CountBefore(ls, p, OldSide)>>
                                  ELSE <<>>
                           /\ unified[p].newNum =
                                  IF ls[p].type \in NewSide
                                  THEN <<ns + CountBefore(ls, p, NewSide)>>
                                  ELSE <<>>
           /\ viewMode = "split" =>
                /\ oldLineCounter = os + CountBefore(ls, idx, OldSide)
                /\ newLineCounter = ns + CountBefore(ls, idx, NewSide)
                /\ LeftNums(rows) =
                       [k \in 1..CountBefore(ls, idx, OldSide) |-> os + k - 1]
                /\ RightNumSet(rows) =
                       {ns + k - 1 : k \in 1..CountBefore(ls, idx, NewSide)}

\* A context row of rs stands between the delete numbered o and the add
\* numbered n: it is numbered after the delete on the old side and before
\* the add on the new side.
ContextBetween(rs, o, n) ==
    \E c \in 1..Len(rs) :
        /\ rs[c].type = "context"
        /\ rs[c].left[1].num > o
        /\ rs[c].right[1].num < n

Contents(ls) == [p \in 1..Len(ls) |-> ls[p].content]

\* C6: SplitHunk never puts an add in the right slot of a delete row when a
\* context line lies between the two; the lines `-A`, ` B`, `+C` give the
\* three rows {left: A, right: null}, {left: B, right: B},
\* {left: null, right: C}.
C6_NoMergeAcrossContext ==
    (viewMode = "split" /\ rpc \in {"render", "done"}) =>
        /\ \A r \in 1..Len(rows) :
               (rows[r].type = "change" /\ rows[r].left # <<>>
                    /\ rows[r].right # <<>>) =>
                   ~ContextBetween(rows, rows[r].left[1].num,
                                   rows[r].right[1].num)
        /\ (rpc = "done" /\ Contents(hunk[1].lines) = <<LnDel, LnCtx, LnAdd>>) =>
               /\ Len(rows) = 3
               /\ rows[1].type = "change"
               /\ rows[1].left # <<>> /\ rows[1].left[1].content = LnDel
               /\ rows[1].right = <<>>
               /\ rows[2].type = "context"
               /\ rows[2].left # <<>> /\ rows[2].left[1].content = LnCtx
               /\ rows[2].right # <<>> /\ rows[2].right[1].content = LnCtx
               /\ rows[3].type = "change"
               /\ rows[3].left = <<>>
               /\ rows[3].right # <<>> /\ rows[3].right[1].content = LnAdd

\* SplitHunk has returned the rows of `-A`, ` B`, `+C`, the add in a row of
\* its own after the context row.
C6_Witness ==
    /\ SplitDone
    /\ Contents(hunk[1].lines) = <<LnDel, LnCtx, LnAdd>>
    /\ Len(rows) = 3
    /\ rows[3].left = <<>> /\ rows[3].right # <<>>

\* C7: for a hunk of k deletes followed by k adds, SplitHunk returns exactly
\* k change rows, each with both left and right populated.
C7_EqualBlocksFullyPaired ==
    SplitDone =>
        \A k \in 1..Len(hunk[1].lines) :
            DeletesThenAdds(hunk[1].lines, k, k) =>
                /\ Len(rows) = k
                /\ \A r \in 1..Len(rows) :
                       /\ rows[r].type = "change"
                       /\ rows[r].left # <<>>
                       /\ rows[r].right # <<>>

\* SplitHunk has returned two fully paired rows for two deletes and two adds.
C7_Witness ==
    /\ SplitDone
    /\ DeletesThenAdds(hunk[1].lines, 2, 2)
    /\ Len(rows) = 2
    /\ rows[1].right # <<>> /\ rows[2].right # <<>>

\* C10: at every step of SplitHunk and in its result, a context row has
\* both sides present with the same content, and a change row has at least
\* one side present, a left side being a delete and a right side an add.
C10_RowShapes ==
    viewMode = "split" =>
        \A r \in 1..Len(rows) :
            /\ rows[r].type \in {"context", "change"}
            /\ rows[r].type = "context" =>
                   /\ rows[r].left # <<>> /\ rows[r].right # <<>>
                   /\ rows[r].left[1].content = rows[r].right[1].content
            /\ rows[r].type = "change" =>
                   /\ rows[r].left # <<>> \/ rows[r].right # <<>>
                   /\ rows[r].left # <<>> =>
                          SideType(rows[r].left[1]) = "delete"
                   /\ rows[r].right # <<>> =>
                          SideType(rows[r].right[1]) = "add"

\* SplitHunk has returned rows of every shape: a context row, a paired
\* change row, a delete-only row and an add-only row.
C10_Witness ==
    /\ SplitDone
    /\ \E r \in 1..Len(rows) : rows[r].type = "context"
    /\ \E r \in 1..Len(rows) :
           rows[r].type = "change" /\ rows[r].left # <<>> /\ rows[r].right # <<>>
    /\ \E r \in 1..Len(rows) :
           rows[r].type = "change" /\ rows[r].left # <<>> /\ rows[r].right = <<>>
    /\ \E r \in 1..Len(rows) :
           rows[r].type = "change" /\ rows[r].left = <<>> /\ rows[r].right # <<>>

---------------------------------------------------------------------------
(* Properties of parseDiff, checked under Spec. *)

Types(ls) == [p \in 1..Len(ls) |-> ls[p].type]

\* C2: parsing the scenario text gives one file with oldName = newName =
\* "x.txt" and one hunk with oldStart = 1, newStart = 1 whose lines are
\* exactly three, of types delete, add, context: the final newline adds no
\* line.
C2_ScenarioThreeLines ==
    (pc = "done" /\ diffText = <<ScenarioText>>) =>
        /\ Len(files) = 1
        /\ files[1].oldName = XTxt
        /\ files[1].newName = XTxt
        /\ Len(files[1].hunks) = 1
        /\ files[1].hunks[1].oldStart = 1
        /\ files[1].hunks[1].newStart = 1
        /\ Types(files[1].hunks[1].lines) = <<"delete", "add", "context">>

\* The positions of ls, among S, whose line starts with prefix.
Starting(ls, S, prefix) == {p \in S : StartsWith(ls[p], prefix)}

\* ls is a diff of one file with one hunk: one `diff --git` line, one line
\* beginning `@@ `, in that order.
SingleFileSingleHunk(ls) ==
    /\ Cardinality(Starting(ls, 1..Len(ls), PfxDiffGit)) = 1
    /\ Cardinality(Starting(ls, 1..Len(ls), PfxHunk)) = 1
    /\ \A d \in Starting(ls, 1..Len(ls), PfxDiffGit) :
           \A h \in Starting(ls, 1..Len(ls), PfxHunk) : d < h

CountOfType(ls, t) == Cardinality({p \in 1..Len(ls) : ls[p].type = t})

\* C3: for a diff of one file with one hunk, the number of add lines of the
\* result equals the number of input lines after the hunk header that begin
\* with `+`, and the number of delete lines the number that begin with `-`,
\* lines beginning `+++ b/` or `--- a/` included.
C3_CountsMatchPrefixes ==
    (pc = "done" /\ diffText # <<>> /\ SingleFileSingleHunk(lines)) =>
        LET h == CHOOSE q \in Starting(lines, 1..Len(lines), PfxHunk) : TRUE
            after == (h + 1)..Len(lines)
        IN /\ Len(files) = 1
           /\ Len(files[1].hunks) = 1
           /\ CountOfType(files[1].hunks[1].lines, "add") =
                  Cardinality(Starting(lines, after, <<"+">>))
           /\ CountOfType(files[1].hunks[1].lines, "delete") =
                  Cardinality(Starting(lines, after, <<"-">>))

\* The lines handled so far.
Handled == 1..(IF i - 1 < Len(lines) THEN i - 1 ELSE Len(lines))

\* The position of the `diff --git` line that opened the current file.
FileStart == SetMax(Starting(lines, Handled, PfxDiffGit))

\* The remainder of the first handled line of the current file that starts
\* with prefix, '' when there is none.
FirstPath(prefix) ==
    LET ps == Starting(lines, {p \in Handled : p > FileStart}, prefix)
    IN IF ps = {} THEN <<>> ELSE Substring(lines[SetMin(ps)], 6)

\* C4: within one file, oldName is set by the first line beginning `--- a/`
\* only and newName by the first line beginning `+++ b/` only; a later such
\* line before the next `diff --git` line leaves the name unchanged.
C4_FirstPathLineWins ==
    (pc \in {"loop", "done"} /\ currentFile # <<>>) =>
        /\ currentFile[1].oldName = FirstPath(PfxOld)
        /\ currentFile[1].newName = FirstPath(PfxNew)

\* C8: parseDiff returns [] and throws nothing for null or empty input and
\* for a text with no line beginning `diff --git`; while no `diff --git`
\* line has been handled nothing has been kept of the lines handled, and the
\* result starts with the file of the first `diff --git` line.
C8_NothingBeforeFirstDiffGit ==
    /\ pc # "threw"
    /\ (pc = "done" /\ (diffText = <<>> \/ diffText[1] = <<>>)) =>
           files = <<>>
    /\ (pc = "done" /\ diffText # <<>>
            /\ Starting(Split(diffText[1]), 1..Len(Split(diffText[1])),
                        PfxDiffGit) = {}) =>
           files = <<>>
    /\ (pc \in {"loop", "done"}
            /\ Starting(lines, Handled, PfxDiffGit) = {}) =>
           files = <<>> /\ currentFile = <<>> /\ currentHunk = <<>>
    /\ (pc = "done" /\ Starting(lines, 1..Len(lines), PfxDiffGit) # {}) =>
           /\ Len(files) >= 1
           /\ files[1].header =
                  lines[SetMin(Starting(lines, 1..Len(lines), PfxDiffGit))]

\* parseDiff has returned [] for a text of several lines, a hunk header and
\* an add line among them, none beginning `diff --git`.
C8_Witness ==
    /\ pc = "done"
    /\ diffText # <<>>
    /\ Len(lines) >= 3
    /\ \E p \in 1..Len(lines) : lines[p] = LnHunk
    /\ \E p \in 1..Len(lines) : lines[p] = LnAdd
    /\ Starting(lines, 1..Len(lines), PfxDiffGit) = {}
    /\ files = <<>>

\* The position of the handled line that opened the current hunk.
HunkStart ==
    SetMax(Starting(lines, {p \in Handled : p > FileStart}, PfxHunk))

\* The content lines of ls at positions from..to, classified, in order.
RECURSIVE ContentOf(_, _, _)
ContentOf(ls, from, to) ==
    IF from > to THEN <<>>
    ELSE (IF IsOther(ls[from]) THEN <<DiffLineOf(ls[from])>> ELSE <<>>)
             \o ContentOf(ls, from + 1, to)

HandledMax == IF i - 1 < Len(lines) THEN i - 1 ELSE Len(lines)

\* C9: a line beginning `@@ ` that does not match the header pattern, met
\* with a file open, neither stops nor fails the parse: it opens a hunk with
\* oldStart = 0 and newStart = 0, and the lines after it are classified and
\* appended to that hunk as after any header.
C9_MalformedHeaderOpensHunk ==
    /\ pc # "threw"
    /\ (pc \in {"loop", "done"}
            /\ Starting(lines, Handled, PfxDiffGit) # {}
            /\ Starting(lines, {p \in Handled : p > FileStart}, PfxHunk) # {}) =>
           /\ currentHunk # <<>>
           /\ currentHunk[1].header = lines[HunkStart]
           /\ currentHunk[1].lines = ContentOf(lines, HunkStart + 1, HandledMax)
           /\ Match(lines[HunkStart]) = <<>> =>
                  currentHunk[1].oldStart = 0 /\ currentHunk[1].newStart = 0

\* parseDiff has returned a file whose hunk was opened by a header that does
\* not match, with start numbers 0 and the lines that followed it.
C9_Witness ==
    /\ pc = "done"
    /\ Len(files) = 1
    /\ Len(files[1].hunks) = 1
    /\ files[1].hunks[1].header = LnHunkBad
    /\ files[1].hunks[1].oldStart = 0
    /\ files[1].hunks[1].newStart = 0
    /\ Types(files[1].hunks[1].lines) = <<"delete", "add">>

\* The members of a set of numbers, in increasing order.
RECURSIVE Sorted(_)
Sorted(S) ==
    IF S = {} THEN <<>> ELSE <<SetMin(S)>> \o Sorted(S \ {SetMin(S)})

\* The positions of the `diff --git` lines of the input, in order.
DiffGitAt == Sorted(Starting(lines, 1..Len(lines), PfxDiffGit))

\* The positions of the lines beginning `@@ ` between the k-th `diff --git`
\* line and the next one (or the end of the input), in order.
HunkHeadersAt(k) ==
    LET last == IF k < Len(DiffGitAt) THEN DiffGitAt[k + 1] - 1
                ELSE Len(lines)
    IN Sorted(Starting(lines, (DiffGitAt[k] + 1)..last, PfxHunk))

Headers(xs) == [p \in 1..Len(xs) |-> xs[p].header]

\* C11: parseDiff returns exactly one file per line beginning `diff --git`,
\* in input order, and every line beginning `@@ ` after a `diff --git` line
\* gives exactly one hunk, in the file of the nearest `diff --git` line
\* before it, in input order, the hunk and file open at the end included.
C11_OneFilePerDiffGitOneHunkPerHeader ==
    pc = "done" =>
        /\ Headers(files) = [k \in 1..Len(DiffGitAt) |-> lines[DiffGitAt[k]]]
        /\ \A k \in 1..Len(files) :
               Headers(files[k].hunks) =
                   [h \in 1..Len(HunkHeadersAt(k)) |-> lines[HunkHeadersAt(k)[h]]]

\* parseDiff has returned three files with different headers, the first
\* with two hunks, the second with none, the last with the hunk that was
\* open at the end of the input.
C11_Witness ==
    /\ pc = "done"
    /\ Headers(files) = <<LnDiffGitY, LnDiffGit, LnDiffGitY>>
    /\ Headers(files[1].hunks) = <<LnHunkWide, LnHunk>>
    /\ files[2].hunks = <<>>
    /\ Headers(files[3].hunks) = <<LnHunkBad>>

---------------------------------------------------------------------------

\* The num fields of the populated right sides of rs, in row order.
RECURSIVE RightNums(_)
RightNums(rs) ==
    IF rs = <<>> THEN <<>>
    ELSE (IF rs[1].right # <<>> THEN <<rs[1].right[1].num>> ELSE <<>>)
             \o RightNums(Tail(rs))

StrictlyIncreasing(ns) == \A p \in 1..(Len(ns) - 1) : ns[p] < ns[p + 1]

\* C12: in the rows SplitHunk builds, read top to bottom, the left.num of
\* the rows with a left side are strictly increasing and the right.num of
\* the rows with a right side are strictly increasing.
C12_NumsIncreaseDownTheRows ==
    (viewMode = "split" /\ rpc \in {"render", "done"}) =>
        /\ StrictlyIncreasing(LeftNums(rows))
        /\ StrictlyIncreasing(RightNums(rows))

====
